---- MODULE Spec2Model ----
(***************************************************************************)
(* Admin panel backend: the relational store (groups, students, payments,  *)
(* expenses, admins) and the route handlers that read and write it.  Every  *)
(* handler is cut at its awaits: one action per store query, so that the    *)
(* queries of overlapping requests interleave as they do on the event loop. *)
(* Timestamps (created_at, updated_at) are not modelled.                    *)
(***************************************************************************)
EXTENDS Integers, Sequences, FiniteSets, Bags, TLC

(***************************************************************************)
(* Bounds                                                                   *)
(***************************************************************************)
NumReq == 2        \* requests in flight at the same time
MaxGroups == 1     \* group rows ever inserted
MaxStudents == 1   \* student rows ever inserted
MaxPayments == 2   \* payment rows ever inserted
MaxExpenses == 1   \* expense rows ever inserted
MaxAdmins == 2     \* admin rows ever inserted
MaxClock == 3      \* last month the clock reaches (months since 2024-01)
MaxTopGroups == 11    \* group rows when a top-groups report is asked for
MaxTopStudents == 2   \* student rows when a top-groups report is asked for

\* LIMIT 10 of the top-groups query
TopLimit == 10

(***************************************************************************)
(* Values                                                                   *)
(***************************************************************************)
\* SQL NULL, and a body field that is absent (undefined), are the empty
\* tuple; a present value v is <<v>>.
None == <<>>
Some(v) == <<v>>
IsSome(o) == o # None
Val(o) == o[1]

\* JS `x || dflt` on a body field: undefined and "" are falsy.
OrElse(o, dflt) == IF o = None \/ o = Some("") THEN dflt ELSE o
OrNull(o) == OrElse(o, None)

Digits == {"0", "1", "2", "3", "4", "5", "6", "7", "8", "9"}
Char(s, i) == SubSeq(s, i, i)
AllDigits(s, a, b) == \A i \in a..b : Char(s, i) \in Digits

\* String.prototype.slice(0, n)
Slice0(s, n) == SubSeq(s, 1, IF Len(s) < n THEN Len(s) ELSE n)

\* String(i).padStart(2, '0')
PadStart2(i) == IF i < 10 THEN "0" \o ToString(i) ELSE ToString(i)

\* new Date().toISOString().slice(0, 7), the clock counting months from 2024-01
CurrentMonth(clock) == ToString(2024 + (clock \div 12)) \o "-" \o PadStart2((clock % 12) + 1)

\* body(..).trim(): strip leading and trailing blanks
RECURSIVE TrimLeft(_)
TrimLeft(s) == IF Len(s) > 0 /\ Char(s, 1) = " " THEN TrimLeft(SubSeq(s, 2, Len(s))) ELSE s
RECURSIVE TrimRight(_)
TrimRight(s) == IF Len(s) > 0 /\ Char(s, Len(s)) = " " THEN TrimRight(SubSeq(s, 1, Len(s) - 1)) ELSE s
Trim(s) == TrimRight(TrimLeft(s))

(***************************************************************************)
(* express-validator checks                                                 *)
(***************************************************************************)
\* isInt() on an id field: present and an integer
IsIntField(o) == IsSome(o) /\ Val(o) \in Int
\* isFloat({ min: 0 })
IsFloatMin0(o) == IsSome(o) /\ Val(o) \in Int /\ Val(o) >= 0
\* trim().notEmpty()
NotEmptyTrimmed(o) == IsSome(o) /\ Trim(Val(o)) # ""
\* matches(/^\d{4}-\d{2}$/)
MatchesMonth(o) ==
    /\ IsSome(o)
    /\ Len(Val(o)) = 7
    /\ AllDigits(Val(o), 1, 4)
    /\ Char(Val(o), 5) = "-"
    /\ AllDigits(Val(o), 6, 7)
\* isISO8601(), calendar dates only: YYYY, YYYY-MM, YYYY-MM-DD, YYYYMMDD
TwoDigitIn(s, i, lo, hi) ==
    /\ AllDigits(s, i, i + 1)
    /\ \E n \in lo..hi : SubSeq(s, i, i + 1) = PadStart2(n)
IsISO8601(o) ==
    /\ IsSome(o)
    /\ LET s == Val(o) IN
       /\ Len(s) >= 4
       /\ AllDigits(s, 1, 4)
       /\ \/ Len(s) = 4
          \/ Len(s) = 7 /\ Char(s, 5) = "-" /\ TwoDigitIn(s, 6, 1, 12)
          \/ Len(s) = 10 /\ Char(s, 5) = "-" /\ TwoDigitIn(s, 6, 1, 12)
                /\ Char(s, 8) = "-" /\ TwoDigitIn(s, 9, 1, 31)
          \/ Len(s) = 8 /\ TwoDigitIn(s, 5, 1, 12) /\ TwoDigitIn(s, 7, 1, 31)
\* isIn(['cash', 'card', 'transfer'])
PaymentMethods == {"cash", "card", "transfer"}
IsPaymentMethod(o) == IsSome(o) /\ Val(o) \in PaymentMethods

(***************************************************************************)
(* State                                                                    *)
(***************************************************************************)
VARIABLES
    groups,     \* table groups:   id -> row
    students,   \* table students: id -> row
    payments,   \* table payments: id -> row
    expenses,   \* table expenses: id -> row
    admins,     \* table admins:   id -> row
    serial,     \* next value of each table's id sequence
    now,        \* the wall clock, in months since 2024-01
    bearer,     \* the Authorization header of the request the server receives next
    req,        \* the requests whose handler is waiting on a query (a bag)
    last        \* the request answered by the step just taken, if any

store == <<groups, students, payments, expenses, admins, serial>>
vars == <<groups, students, payments, expenses, admins, serial, now, bearer, req, last>>

NoResp == [op |-> "none", resp |-> 0]

\* A request as its handler starts: route, :id parameter, body, locals.
NewReq(op, id, body) ==
    [op |-> op, pc |-> "start", id |-> id, body |-> body, loc |-> <<>>, resp |-> 0]

\* the server takes a new request while fewer than NumReq are being handled
Accepting == BagCardinality(req) < NumReq

\* the number of requests waiting at `pc` of route `op`
Waiting(op, pc) ==
    LET S == {rq \in BagToSet(req) : rq.op = op /\ rq.pc = pc}
        RECURSIVE Sum(_)
        Sum(T) == IF T = {} THEN 0
                  ELSE LET x == CHOOSE y \in T : TRUE IN CopiesIn(x, req) + Sum(T \ {x})
    IN Sum(S)

\* a handler reaches its next await
Await(rq) == /\ req' = req (+) SetToBag({rq})
             /\ last' = NoResp
Continue(old, rq) == /\ req' = (req (-) SetToBag({old})) (+) SetToBag({rq})
                     /\ last' = NoResp
\* res.status(code).json(..): the handler returns
Reply(old, rq, code) == /\ req' = req (-) SetToBag({old})
                        /\ last' = [rq EXCEPT !.resp = code]
Respond(rq, code) == Reply(rq, rq, code)

Init ==
    /\ groups = <<>>
    /\ students = <<>>
    /\ payments = <<>>
    /\ expenses = <<>>
    /\ admins = <<>>
    /\ serial = [groups |-> 1, students |-> 1, payments |-> 1, expenses |-> 1, admins |-> 1]
    /\ now = 2
    /\ bearer = None
    /\ req = EmptyBag
    /\ last = NoResp

\* INSERT: the row gets the next id of the table's sequence
Insert(table, id, row) == [i \in DOMAIN table \cup {id} |-> IF i = id THEN row ELSE table[i]]
\* DELETE ... WHERE id = $1
Remove(table, id) == [i \in DOMAIN table \ {id} |-> table[i]]

(***************************************************************************)
(* Groups                                                                   *)
(***************************************************************************)
\* GroupBodyValid, had monthly_fee been checked with isFloat() alone
GroupBodyValid_NoMin(body) ==
    NotEmptyTrimmed(body.name) /\ IsSome(body.monthly_fee) /\ Val(body.monthly_fee) \in Int

GroupBodyValid(body) == NotEmptyTrimmed(body.name) /\ IsFloatMin0(body.monthly_fee)

\* the row a group body is stored as
GroupRow(body) ==
    [name |-> Trim(Val(body.name)),
     teacher_name |-> OrNull(body.teacher_name),
     monthly_fee |-> Val(body.monthly_fee)]

\* POST /api/groups
CreateGroup(body) ==
    /\ Accepting
    /\ LET rq == NewReq("createGroup", 0, body) IN
       IF ~GroupBodyValid(body)
       THEN /\ Respond(rq, 400)
            /\ UNCHANGED <<groups, serial>>
       ELSE /\ serial.groups <= MaxGroups
            /\ groups' = Insert(groups, serial.groups, GroupRow(body))
            /\ serial' = [serial EXCEPT !.groups = @ + 1]
            /\ Respond([rq EXCEPT !.loc = [row |-> serial.groups]], 201)
    /\ UNCHANGED <<students, payments, expenses, admins, now, bearer>>

\* PUT /api/groups/:id (loc.before keeps the row as it was)
UpdateGroup(id, body) ==
    /\ Accepting
    /\ LET rq == NewReq("updateGroup", id, body) IN
       IF ~GroupBodyValid(body)
       THEN /\ Respond(rq, 400)
            /\ UNCHANGED groups
       ELSE IF id \notin DOMAIN groups
       THEN /\ Respond(rq, 404)
            /\ UNCHANGED groups
       ELSE /\ groups' = [groups EXCEPT ![id] = GroupRow(body)]
            /\ Respond([rq EXCEPT !.loc = [before |-> groups[id]]], 200)
    /\ UNCHANGED <<students, payments, expenses, admins, serial, now, bearer>>

\* DELETE /api/groups/:id
DeleteGroup(id) ==
    /\ Accepting
    /\ LET rq == NewReq("deleteGroup", id, <<>>) IN
       IF id \notin DOMAIN groups
       THEN /\ Respond(rq, 404)
            /\ UNCHANGED groups
       ELSE /\ groups' = Remove(groups, id)
            /\ Respond(rq, 200)
    /\ UNCHANGED <<students, payments, expenses, admins, serial, now, bearer>>

(***************************************************************************)
(* Students                                                                 *)
(***************************************************************************)
StudentCreateValid(body) ==
    IsIntField(body.group_id) /\ NotEmptyTrimmed(body.full_name) /\ IsISO8601(body.join_date)
StudentUpdateValid(body) ==
    NotEmptyTrimmed(body.full_name) /\ IsISO8601(body.join_date)

\* the row a student body is stored as; an undefined group_id is bound as NULL
StudentRow(body) ==
    [group_id |-> body.group_id,
     full_name |-> Trim(Val(body.full_name)),
     phone_number |-> OrNull(body.phone_number),
     parent_phone |-> OrNull(body.parent_phone),
     join_date |-> Val(body.join_date),
     payment_status |-> Val(OrElse(body.payment_status, Some("unpaid")))]

\* POST /api/students: validation and the query that verifies the group
CreateStudentCheck(body) ==
    /\ Accepting
    /\ LET rq == NewReq("createStudent", 0, body) IN
       IF ~StudentCreateValid(body)
       THEN Respond(rq, 400)
       ELSE IF Val(body.group_id) \notin DOMAIN groups
       THEN Respond(rq, 404)
       ELSE /\ serial.students + Waiting("createStudent", "insert") <= MaxStudents
            /\ Await([rq EXCEPT !.pc = "insert"])
    /\ UNCHANGED <<groups, students, payments, expenses, admins, serial, now, bearer>>

\* POST /api/students: the INSERT, then the 201 response
CreateStudentInsert(rq) ==
    /\ rq.op = "createStudent" /\ rq.pc = "insert"
    /\ students' = Insert(students, serial.students, StudentRow(rq.body))
    /\ serial' = [serial EXCEPT !.students = @ + 1]
    /\ Reply(rq, [rq EXCEPT !.loc = [row |-> serial.students]], 201)
    /\ UNCHANGED <<groups, payments, expenses, admins, now, bearer>>

\* UpdateStudent, had it kept the stored value of an omitted optional field
\* (SET phone_number = COALESCE($3, phone_number), ...)
UpdateStudent_Patch(id, body) ==
    /\ Accepting
    /\ LET rq == NewReq("updateStudent", id, body) IN
       IF ~StudentUpdateValid(body)
       THEN /\ Respond(rq, 400)
            /\ UNCHANGED students
       ELSE IF id \notin DOMAIN students
       THEN /\ Respond(rq, 404)
            /\ UNCHANGED students
       ELSE /\ students' = [students EXCEPT ![id] =
                   [StudentRow(body) EXCEPT
                       !.phone_number = OrElse(body.phone_number, students[id].phone_number),
                       !.parent_phone = OrElse(body.parent_phone, students[id].parent_phone)]]
            /\ Respond([rq EXCEPT !.loc = [before |-> students[id]]], 200)
    /\ UNCHANGED <<groups, payments, expenses, admins, serial, now, bearer>>

\* UpdateStudent, had it reconciled the status with the payments of the
\* current month
UpdateStudent_Reconciled(id, body) ==
    /\ Accepting
    /\ LET rq == NewReq("updateStudent", id, body) IN
       IF ~StudentUpdateValid(body)
       THEN /\ Respond(rq, 400)
            /\ UNCHANGED students
       ELSE IF id \notin DOMAIN students
       THEN /\ Respond(rq, 404)
            /\ UNCHANGED students
       ELSE /\ students' = [students EXCEPT ![id] =
                  [StudentRow(body) EXCEPT !.payment_status =
                      IF \E p \in DOMAIN payments :
                            /\ payments[p].student_id = id
                            /\ payments[p].payment_month = CurrentMonth(now)
                      THEN "paid" ELSE @]]
            /\ Respond([rq EXCEPT !.loc = [before |-> students[id]]], 200)
    /\ UNCHANGED <<groups, payments, expenses, admins, serial, now, bearer>>

\* PUT /api/students/:id (loc.before keeps the row as it was)
UpdateStudent(id, body) ==
    /\ Accepting
    /\ LET rq == NewReq("updateStudent", id, body) IN
       IF ~StudentUpdateValid(body)
       THEN /\ Respond(rq, 400)
            /\ UNCHANGED students
       ELSE IF id \notin DOMAIN students
       THEN /\ Respond(rq, 404)
            /\ UNCHANGED students
       ELSE /\ students' = [students EXCEPT ![id] = StudentRow(body)]
            /\ Respond([rq EXCEPT !.loc = [before |-> students[id]]], 200)
    /\ UNCHANGED <<groups, payments, expenses, admins, serial, now, bearer>>

\* DELETE /api/students/:id
DeleteStudent(id) ==
    /\ Accepting
    /\ LET rq == NewReq("deleteStudent", id, <<>>) IN
       IF id \notin DOMAIN students
       THEN /\ Respond(rq, 404)
            /\ UNCHANGED students
       ELSE /\ students' = Remove(students, id)
            /\ Respond(rq, 200)
    /\ UNCHANGED <<groups, payments, expenses, admins, serial, now, bearer>>

(***************************************************************************)
(* Payments                                                                 *)
(***************************************************************************)
PaymentBodyValid(body) ==
    /\ IsIntField(body.student_id)
    /\ IsFloatMin0(body.amount)
    /\ MatchesMonth(body.payment_month)
    /\ IsISO8601(body.payment_date)
    /\ IsPaymentMethod(body.payment_method)

\* the row a payment body is stored as, group_id being the student's group
\* read by the first query
PaymentRow(body, group_id) ==
    [student_id |-> Val(body.student_id),
     group_id |-> group_id,
     amount |-> Val(body.amount),
     payment_month |-> Val(body.payment_month),
     payment_date |-> Val(body.payment_date),
     payment_method |-> Val(body.payment_method),
     notes |-> OrNull(body.notes)]

\* UPDATE students SET payment_status = $1 WHERE id = $2
SetPaymentStatus(table, id, status) ==
    IF id \in DOMAIN table THEN [table EXCEPT ![id].payment_status = status] ELSE table

\* SELECT COUNT(*) FROM payments WHERE student_id = $1 AND payment_month = $2
CountPayments(table, studentId, month) ==
    Cardinality({p \in DOMAIN table :
        table[p].student_id = studentId /\ table[p].payment_month = month})

\* CreatePaymentSelect, had it gone on without its 404 when no student row
\* is found
CreatePaymentSelect_NoLookup(body) ==
    /\ Accepting
    /\ LET rq == NewReq("createPayment", 0, body) IN
       IF ~PaymentBodyValid(body)
       THEN Respond(rq, 400)
       ELSE /\ serial.payments + Waiting("createPayment", "insert") <= MaxPayments
            /\ Await([rq EXCEPT !.pc = "insert",
                    !.loc = [group_id |-> IF Val(body.student_id) \in DOMAIN students
                                          THEN students[Val(body.student_id)].group_id
                                          ELSE None,
                             row |-> 0]])
    /\ UNCHANGED <<groups, students, payments, expenses, admins, serial, now, bearer>>

\* POST /api/payments: validation and the query that reads the student's group
CreatePaymentSelect(body) ==
    /\ Accepting
    /\ LET rq == NewReq("createPayment", 0, body) IN
       IF ~PaymentBodyValid(body)
       THEN Respond(rq, 400)
       ELSE IF Val(body.student_id) \notin DOMAIN students
       THEN Respond(rq, 404)
       ELSE /\ serial.payments + Waiting("createPayment", "insert") <= MaxPayments
            /\ Await([rq EXCEPT !.pc = "insert",
                    !.loc = [group_id |-> students[Val(body.student_id)].group_id,
                             row |-> 0]])
    /\ UNCHANGED <<groups, students, payments, expenses, admins, serial, now, bearer>>

\* POST /api/payments: INSERT INTO payments ... RETURNING *
CreatePaymentInsert(rq) ==
    /\ rq.op = "createPayment" /\ rq.pc = "insert"
    /\ payments' = Insert(payments, serial.payments, PaymentRow(rq.body, rq.loc.group_id))
    /\ serial' = [serial EXCEPT !.payments = @ + 1]
    /\ Continue(rq, [rq EXCEPT !.pc = "update", !.loc.row = serial.payments])
    /\ UNCHANGED <<groups, students, expenses, admins, now, bearer>>

\* CreatePaymentUpdate, had it marked the student paid only for a payment of
\* the current month
CreatePaymentUpdate_CurrentMonthOnly(rq) ==
    /\ rq.op = "createPayment" /\ rq.pc = "update"
    /\ students' = IF Val(rq.body.payment_month) = CurrentMonth(now)
                   THEN SetPaymentStatus(students, Val(rq.body.student_id), "paid")
                   ELSE students
    /\ Respond(rq, 201)
    /\ UNCHANGED <<groups, payments, expenses, admins, serial, now, bearer>>

\* POST /api/payments: UPDATE students to 'paid', then the 201 response
CreatePaymentUpdate(rq) ==
    /\ rq.op = "createPayment" /\ rq.pc = "update"
    /\ students' = SetPaymentStatus(students, Val(rq.body.student_id), "paid")
    /\ Respond(rq, 201)
    /\ UNCHANGED <<groups, payments, expenses, admins, serial, now, bearer>>

\* DeletePaymentDelete, had it not tested result.rows.length
DeletePaymentDelete_NoCheck(id) ==
    /\ Accepting
    /\ LET rq == NewReq("deletePayment", id, <<>>) IN
       /\ payments' = Remove(payments, id)
       /\ Await([rq EXCEPT !.pc = "count",
               !.loc = [studentId |-> IF id \in DOMAIN payments
                                      THEN payments[id].student_id ELSE 0,
                        currentMonth |-> "", since |-> now, before |-> None]])
    /\ UNCHANGED <<groups, students, expenses, admins, serial, now, bearer>>

\* DELETE /api/payments/:id: DELETE ... RETURNING student_id.
\* loc.before and loc.since keep the student's status and the clock as they
\* were when the row was removed.
DeletePaymentDelete(id) ==
    /\ Accepting
    /\ LET rq == NewReq("deletePayment", id, <<>>) IN
       IF id \notin DOMAIN payments
       THEN /\ Respond(rq, 404)
            /\ UNCHANGED payments
       ELSE /\ payments' = Remove(payments, id)
            /\ Await([rq EXCEPT !.pc = "count",
                    !.loc = [studentId |-> payments[id].student_id,
                             currentMonth |-> "",
                             since |-> now,
                             before |-> IF payments[id].student_id \in DOMAIN students
                                        THEN Some(students[payments[id].student_id].payment_status)
                                        ELSE None]])
    /\ UNCHANGED <<groups, students, expenses, admins, serial, now, bearer>>

\* DeletePaymentCount, had it counted the student's payments of any month
DeletePaymentCount_AnyMonth(rq) ==
    /\ rq.op = "deletePayment" /\ rq.pc = "count"
    /\ LET rq2 == [rq EXCEPT !.loc.currentMonth = CurrentMonth(now)] IN
       IF {p \in DOMAIN payments : payments[p].student_id = rq.loc.studentId} = {}
       THEN Continue(rq, [rq2 EXCEPT !.pc = "update"])
       ELSE Reply(rq, rq2, 200)
    /\ UNCHANGED <<groups, students, payments, expenses, admins, serial, now, bearer>>

\* DELETE /api/payments/:id: currentMonth is read from the clock, the COUNT
\* query runs, and its result is tested
DeletePaymentCount(rq) ==
    /\ rq.op = "deletePayment" /\ rq.pc = "count"
    /\ LET currentMonth == CurrentMonth(now)
           rq2 == [rq EXCEPT !.loc.currentMonth = currentMonth] IN
       IF CountPayments(payments, rq.loc.studentId, currentMonth) = 0
       THEN Continue(rq, [rq2 EXCEPT !.pc = "update"])
       ELSE Reply(rq, rq2, 200)
    /\ UNCHANGED <<groups, students, payments, expenses, admins, serial, now, bearer>>

\* DELETE /api/payments/:id: UPDATE students to 'unpaid', then the response
DeletePaymentUpdate(rq) ==
    /\ rq.op = "deletePayment" /\ rq.pc = "update"
    /\ students' = SetPaymentStatus(students, rq.loc.studentId, "unpaid")
    /\ Respond(rq, 200)
    /\ UNCHANGED <<groups, payments, expenses, admins, serial, now, bearer>>

(***************************************************************************)
(* Expenses                                                                 *)
(***************************************************************************)
ExpenseBodyValid(body) ==
    NotEmptyTrimmed(body.title) /\ IsFloatMin0(body.amount) /\ IsISO8601(body.expense_date)

\* the row an expense body is stored as; body.expense_month is never read
ExpenseRow(body) ==
    [title |-> Trim(Val(body.title)),
     amount |-> Val(body.amount),
     category |-> OrNull(body.category),
     expense_date |-> Val(body.expense_date),
     expense_month |-> Slice0(Val(body.expense_date), 7),
     notes |-> OrNull(body.notes)]

\* POST /api/expenses
CreateExpense(body) ==
    /\ Accepting
    /\ LET rq == NewReq("createExpense", 0, body) IN
       IF ~ExpenseBodyValid(body)
       THEN /\ Respond(rq, 400)
            /\ UNCHANGED <<expenses, serial>>
       ELSE /\ serial.expenses <= MaxExpenses
            /\ expenses' = Insert(expenses, serial.expenses, ExpenseRow(body))
            /\ serial' = [serial EXCEPT !.expenses = @ + 1]
            /\ Respond([rq EXCEPT !.loc = [row |-> serial.expenses]], 201)
    /\ UNCHANGED <<groups, students, payments, admins, now, bearer>>

\* UpdateExpense, had its UPDATE not set expense_month
UpdateExpense_MonthKept(id, body) ==
    /\ Accepting
    /\ LET rq == NewReq("updateExpense", id, body) IN
       IF ~ExpenseBodyValid(body)
       THEN /\ Respond(rq, 400)
            /\ UNCHANGED expenses
       ELSE IF id \notin DOMAIN expenses
       THEN /\ Respond(rq, 404)
            /\ UNCHANGED expenses
       ELSE /\ expenses' = [expenses EXCEPT ![id] =
                   [ExpenseRow(body) EXCEPT !.expense_month = expenses[id].expense_month]]
            /\ Respond([rq EXCEPT !.loc = [before |-> expenses[id]]], 200)
    /\ UNCHANGED <<groups, students, payments, admins, serial, now, bearer>>

\* PUT /api/expenses/:id (loc.before keeps the row as it was)
UpdateExpense(id, body) ==
    /\ Accepting
    /\ LET rq == NewReq("updateExpense", id, body) IN
       IF ~ExpenseBodyValid(body)
       THEN /\ Respond(rq, 400)
            /\ UNCHANGED expenses
       ELSE IF id \notin DOMAIN expenses
       THEN /\ Respond(rq, 404)
            /\ UNCHANGED expenses
       ELSE /\ expenses' = [expenses EXCEPT ![id] = ExpenseRow(body)]
            /\ Respond([rq EXCEPT !.loc = [before |-> expenses[id]]], 200)
    /\ UNCHANGED <<groups, students, payments, admins, serial, now, bearer>>

\* DELETE /api/expenses/:id
DeleteExpense(id) ==
    /\ Accepting
    /\ LET rq == NewReq("deleteExpense", id, <<>>) IN
       IF id \notin DOMAIN expenses
       THEN /\ Respond(rq, 404)
            /\ UNCHANGED expenses
       ELSE /\ expenses' = Remove(expenses, id)
            /\ Respond(rq, 200)
    /\ UNCHANGED <<groups, students, payments, admins, serial, now, bearer>>

(***************************************************************************)
(* Environment                                                              *)
(***************************************************************************)
\* a month passes
Tick ==
    /\ now < MaxClock
    /\ now' = now + 1
    /\ last' = NoResp
    /\ UNCHANGED <<groups, students, payments, expenses, admins, serial, req, bearer>>

\* Fail, had the handler run its queries in a transaction that is rolled back
Fail_RolledBack(rq) ==
    /\ Respond(rq, 500)
    /\ payments' = IF rq.op = "createPayment" /\ rq.pc = "update"
                   THEN Remove(payments, rq.loc.row) ELSE payments
    /\ UNCHANGED <<groups, students, expenses, admins, serial, now, bearer>>

\* the pending query of a request throws: the catch block answers 500
Fail(rq) ==
    /\ Respond(rq, 500)
    /\ UNCHANGED <<groups, students, payments, expenses, admins, serial, now, bearer>>

(***************************************************************************)
(* Reconciliation: payments created and deleted for an enrolled student     *)
(***************************************************************************)
Pending == BagToSet(req)
PaymentIds == 1..MaxPayments

\* The store holds one group and one student enrolled in it (the rows that
\* POST /api/groups and POST /api/students insert for these bodies).
SeedGroupBody == [name |-> Some("Math"), teacher_name |-> None, monthly_fee |-> Some(100)]
PayStudentBody(g, st) ==
    [group_id |-> g, full_name |-> Some("Ann"), phone_number |-> None,
     parent_phone |-> None, join_date |-> Some("2024-01-10"), payment_status |-> st]

InitPay ==
    /\ groups = Insert(<<>>, 1, GroupRow(SeedGroupBody))
    /\ students = Insert(<<>>, 1, StudentRow(PayStudentBody(Some(1), None)))
    /\ payments = <<>>
    /\ expenses = <<>>
    /\ admins = <<>>
    /\ serial = [groups |-> 2, students |-> 2, payments |-> 1, expenses |-> 1, admins |-> 1]
    /\ now = 2
    /\ bearer = None
    /\ req = EmptyBag
    /\ last = NoResp

\* student 2 does not exist
PayStudentIds == {1, 2}
PayStudentUpdateBodies == {PayStudentBody(None, None), PayStudentBody(Some(1), Some("paid"))}
\* the month of the clock at the start, the month after it, and a month
\* that is not YYYY-MM
PaymentBodies ==
    {[student_id |-> Some(s), amount |-> Some(100), payment_month |-> Some(m),
      payment_date |-> Some("2024-03-15"), payment_method |-> Some("cash"), notes |-> None] :
        s \in PayStudentIds,
        m \in {"2024-03", "2024-04", "2024-3"}}

\* a request arrives and runs up to its first await (or to its response)
ArrivePay ==
    \/ \E s \in PayStudentIds, b \in PayStudentUpdateBodies : UpdateStudent(s, b)
    \/ \E b \in PaymentBodies : CreatePaymentSelect(b)
    \/ \E p \in PaymentIds : DeletePaymentDelete(p)

\* the query a handler awaits completes and the handler runs on
ProceedPay ==
    \/ \E rq \in Pending : CreatePaymentInsert(rq)
    \/ \E rq \in Pending : CreatePaymentUpdate(rq)
    \/ \E rq \in Pending : DeletePaymentCount(rq)
    \/ \E rq \in Pending : DeletePaymentUpdate(rq)

\* requests overlap, within one month
Next == ArrivePay \/ ProceedPay
Spec == InitPay /\ [][Next]_vars

\* payment requests alone overlap, within one month
ArrivePayOnly ==
    \/ \E b \in PaymentBodies : CreatePaymentSelect(b)
    \/ \E p \in PaymentIds : DeletePaymentDelete(p)
NextPayOnly == ArrivePayOnly \/ ProceedPay
SpecPayOnly == InitPay /\ [][NextPayOnly]_vars

\* payment requests alone, handled one after the other
NextPayOnlySeq == (req = EmptyBag /\ ArrivePayOnly) \/ ProceedPay
SpecPayOnlySeq == InitPay /\ [][NextPayOnlySeq]_vars

\* requests are handled one after the other, over the months
NextSeq == (req = EmptyBag /\ ArrivePay) \/ ProceedPay \/ Tick
SpecSeq == InitPay /\ [][NextSeq]_vars

\* requests are handled one after the other and queries may fail
NextFault == NextSeq \/ \E rq \in Pending : Fail(rq)
SpecFault == InitPay /\ [][NextFault]_vars

(***************************************************************************)
(* Groups, students and expenses: request bodies and specification          *)
(***************************************************************************)
GroupIds == 1..(MaxGroups + 1)
StudentIds == 1..(MaxStudents + 1)
ExpenseIds == 1..(MaxExpenses + 1)

\* a full body with a padded name, a body without the optional field, and a
\* body with a negative fee
GroupBodies ==
    {[name |-> Some(" Math "), teacher_name |-> Some("Ali"), monthly_fee |-> Some(100)],
     [name |-> Some("Math"), teacher_name |-> None, monthly_fee |-> Some(0)],
     [name |-> Some("Art"), teacher_name |-> Some(""), monthly_fee |-> Some(-5)]}

\* a full body, a body with every optional field left out or empty, and a
\* body whose join_date is no date
StudentBodies ==
    {[group_id |-> Some(g), full_name |-> Some(" Ann"), phone_number |-> Some("555"),
      parent_phone |-> Some("777"), join_date |-> Some("2024-01-10"),
      payment_status |-> Some("paid")] : g \in {1}}
    \cup
    {[group_id |-> None, full_name |-> Some("Ann"), phone_number |-> None,
      parent_phone |-> Some(""), join_date |-> Some("2024-02-01"), payment_status |-> None],
     [group_id |-> Some(1), full_name |-> Some("Bob"), phone_number |-> None,
      parent_phone |-> None, join_date |-> Some("2024-13-01"), payment_status |-> None]}

\* a full body that also carries an expense_month, a body without the
\* optional fields, a body dated in ISO basic format, and a body whose
\* expense_date is no date
ExpenseBodies ==
    {[title |-> Some(" Rent "), amount |-> Some(500), category |-> Some("office"),
      expense_date |-> Some("2024-03-15"), notes |-> Some("march"),
      expense_month |-> Some("1999-01")],
     [title |-> Some("Rent"), amount |-> Some(0), category |-> None,
      expense_date |-> Some("2024-04-01"), notes |-> Some(""), expense_month |-> None],
     [title |-> Some("Rent"), amount |-> Some(500), category |-> None,
      expense_date |-> Some("20240315"), notes |-> None, expense_month |-> Some("2024-03")],
     [title |-> Some("Rent"), amount |-> Some(500), category |-> None,
      expense_date |-> Some("2024-3-15"), notes |-> None, expense_month |-> None]}

NextCrud ==
    \/ \E b \in GroupBodies : CreateGroup(b)
    \/ \E g \in GroupIds, b \in GroupBodies : UpdateGroup(g, b)
    \/ \E g \in GroupIds : DeleteGroup(g)
    \/ \E b \in StudentBodies : CreateStudentCheck(b)
    \/ \E rq \in Pending : CreateStudentInsert(rq)
    \/ \E i \in StudentIds, b \in StudentBodies : UpdateStudent(i, b)
    \/ \E i \in StudentIds : DeleteStudent(i)
    \/ \E b \in ExpenseBodies : CreateExpense(b)
    \/ \E e \in ExpenseIds, b \in ExpenseBodies : UpdateExpense(e, b)
    \/ \E e \in ExpenseIds : DeleteExpense(e)

\* requests overlap, on a store that starts empty
SpecCrud == Init /\ [][NextCrud]_vars

\* the groups routes alone, for every fee a body may carry: positive, zero,
\* negative, missing
FeeBodies ==
    {[name |-> Some(n), teacher_name |-> None, monthly_fee |-> f] :
        n \in {"Math", "Art"}, f \in {Some(100), Some(0), Some(-5), Some(-1), None}}

NextGroups ==
    \/ \E b \in FeeBodies : CreateGroup(b)
    \/ \E g \in GroupIds, b \in FeeBodies : UpdateGroup(g, b)
    \/ \E g \in GroupIds : DeleteGroup(g)

SpecGroups == Init /\ [][NextGroups]_vars

(***************************************************************************)
(* Admins: registration                                                     *)
(***************************************************************************)
\* body(..).isLength({ min: n }); an absent field is validated as ''
IsLengthMin(field, n) == IsSome(field) /\ Len(Val(field)) >= n

\* body('email').isEmail(): one '@' after a non-empty local part, and a
\* domain with a dot inside it; no blanks
IsEmail(field) ==
    /\ IsSome(field)
    /\ LET s == Val(field) IN
       /\ \A k \in 1..Len(s) : Char(s, k) # " "
       /\ \E i \in 2..Len(s) :
             /\ Char(s, i) = "@"
             /\ \A k \in 1..Len(s) : Char(s, k) = "@" => k = i
             /\ \E j \in (i + 2)..(Len(s) - 1) :
                   Char(s, j) = "." /\ Char(s, j - 1) # "." /\ Char(s, j + 1) # "."

RegisterBodyValid(body) ==
    IsLengthMin(body.username, 3) /\ IsLengthMin(body.password, 6) /\ IsEmail(body.email)

\* bcrypt.hash(password, 10): the stored value is not the password
Hash(password) == <<"bcrypt", 10, password>>

\* SELECT id FROM admins WHERE username=$1 OR email=$2
ExistingAdmins(table, username, email) ==
    {a \in DOMAIN table : table[a].username = username \/ table[a].email = email}

\* POST /api/auth/register: validation and the query that looks for the
\* username or the email
RegisterCheck(body) ==
    /\ Accepting
    /\ LET rq == NewReq("register", 0, body) IN
       IF ~RegisterBodyValid(body)
       THEN Respond(rq, 400)
       ELSE IF ExistingAdmins(admins, Val(body.username), Val(body.email)) # {}
       THEN Respond(rq, 400)
       ELSE /\ serial.admins + Waiting("register", "insert") <= MaxAdmins
            /\ Await([rq EXCEPT !.pc = "insert"])
    /\ UNCHANGED <<groups, students, payments, expenses, admins, serial, now, bearer>>

\* POST /api/auth/register: the hash and the INSERT, then the 201 response
RegisterInsert(rq) ==
    /\ rq.op = "register" /\ rq.pc = "insert"
    /\ admins' = Insert(admins, serial.admins,
                        [username |-> Val(rq.body.username),
                         password |-> Hash(Val(rq.body.password)),
                         email |-> Val(rq.body.email)])
    /\ serial' = [serial EXCEPT !.admins = @ + 1]
    /\ Reply(rq, [rq EXCEPT !.loc = [row |-> serial.admins]], 201)
    /\ UNCHANGED <<groups, students, payments, expenses, now, bearer>>

\* body(..).notEmpty(); an absent field is validated as ''
NotEmpty(field) == IsSome(field) /\ Len(Val(field)) > 0

LoginBodyValid(body) == NotEmpty(body.username) /\ NotEmpty(body.password)

\* bcrypt.compare(password, hash)
Compare(password, hash) == hash = Hash(password)

\* jwt.sign({ id, username }, process.env.JWT_SECRET, { expiresIn: '7d' }),
\* the lifetime in days
JwtSign(id, username) ==
    [id |-> id, username |-> username, expiresIn |-> 7, signedWith |-> "JWT_SECRET"]

\* the body of a login response: its message and its token
InvalidCredentials == [message |-> "Invalid credentials", token |-> None]
LoggedIn(id, row) ==
    [message |-> "", token |-> Some(JwtSign(id, row.username)),
     user |-> [id |-> id, username |-> row.username, email |-> row.email]]

\* SELECT * FROM admins WHERE username = $1
AdminsNamed(table, username) == {a \in DOMAIN table : table[a].username = username}

\* LoginSelect, had it told an unknown username apart from a wrong password
LoginSelect_UserNotFound(body) ==
    /\ Accepting
    /\ LET rq == NewReq("login", 0, body) IN
       IF ~LoginBodyValid(body)
       THEN Respond(rq, 400)
       ELSE IF AdminsNamed(admins, Val(body.username)) = {}
       THEN Reply(rq, [rq EXCEPT !.loc = [message |-> "User not found", token |-> None]], 404)
       ELSE \E a \in AdminsNamed(admins, Val(body.username)) :
               Await([rq EXCEPT !.pc = "compare", !.loc = [id |-> a, admin |-> admins[a]]])
    /\ UNCHANGED <<groups, students, payments, expenses, admins, serial, now, bearer>>

\* POST /api/auth/login: validation and the query for the admin; rows[0] of
\* a query without ORDER BY is any of the rows that match
LoginSelect(body) ==
    /\ Accepting
    /\ LET rq == NewReq("login", 0, body) IN
       IF ~LoginBodyValid(body)
       THEN Respond(rq, 400)
       ELSE IF AdminsNamed(admins, Val(body.username)) = {}
       THEN Reply(rq, [rq EXCEPT !.loc = InvalidCredentials], 401)
       ELSE \E a \in AdminsNamed(admins, Val(body.username)) :
               Await([rq EXCEPT !.pc = "compare", !.loc = [id |-> a, admin |-> admins[a]]])
    /\ UNCHANGED <<groups, students, payments, expenses, admins, serial, now, bearer>>

\* POST /api/auth/login: the password comparison, then 401 or the token
LoginCompare(rq) ==
    /\ rq.op = "login" /\ rq.pc = "compare"
    /\ IF ~Compare(Val(rq.body.password), rq.loc.admin.password)
       THEN Reply(rq, [rq EXCEPT !.loc = InvalidCredentials], 401)
       ELSE Reply(rq, [rq EXCEPT !.loc = LoggedIn(rq.loc.id, rq.loc.admin)], 200)
    /\ UNCHANGED <<groups, students, payments, expenses, admins, serial, now, bearer>>

RegisterBodies ==
    {[username |-> Some(u), password |-> Some("secret1"), email |-> Some(e)] :
        u \in {"root", "admin"}, e \in {"a@x.io", "b@x.io"}}
    \cup {[username |-> Some("ab"), password |-> Some("secret1"), email |-> Some("a@x.io")],
          [username |-> Some("root"), password |-> Some("abc"), email |-> Some("a@x.io")],
          [username |-> Some("root"), password |-> Some("secret1"), email |-> Some("a.x@io")],
          [username |-> None, password |-> Some("secret1"), email |-> Some("a@x.io")]}

LoginBodies ==
    {[username |-> Some(u), password |-> Some(pw)] : u \in {"root", "admin"}, pw \in {"secret1", "secret2"}}
    \cup {[username |-> Some(""), password |-> Some("secret1")],
          [username |-> Some("root"), password |-> None]}

NextAuth ==
    \/ \E b \in RegisterBodies : RegisterCheck(b)
    \/ \E rq \in Pending : RegisterInsert(rq)
    \/ \E b \in LoginBodies : LoginSelect(b)
    \/ \E rq \in Pending : LoginCompare(rq)

\* register requests overlap, on a store that starts empty
SpecAuth == Init /\ [][NextAuth]_vars

(***************************************************************************)
(* Dashboard: the monthly chart                                             *)
(***************************************************************************)
\* column LIKE `${currentYear}%`, for a year without LIKE wildcards
LikePrefix(s, prefix) == Len(s) >= Len(prefix) /\ SubSeq(s, 1, Len(prefix)) = prefix

\* SUM(amount) over the rows `ids` of a table
RECURSIVE SumAmount(_, _)
SumAmount(table, ids) ==
    IF ids = {} THEN 0
    ELSE LET i == CHOOSE j \in ids : TRUE IN table[i].amount + SumAmount(table, ids \ {i})

\* SELECT <column> as month, SUM(amount) as total FROM <table>
\* WHERE <column> LIKE $1 GROUP BY <column>
MonthlyTotals(table, column, year) ==
    {[month |-> m, total |-> SumAmount(table, {i \in DOMAIN table : table[i][column] = m})] :
        m \in {table[i][column] : i \in {j \in DOMAIN table : LikePrefix(table[j][column], year)}}}

\* year || new Date().getFullYear(), as the template string renders it
CurrentYear(year, clock) == IF year = None \/ year = Some("")
                            THEN ToString(2024 + (clock \div 12))
                            ELSE Val(year)

\* rows.find(r => r.month === month), then parseFloat(row.total) or 0;
\* amounts are whole numbers here
TotalOf(rows, month) ==
    IF \E r \in rows : r.month = month
    THEN (CHOOSE r \in rows : r.month = month).total
    ELSE 0

\* one pass of the loop that fills the year
ChartEntry(year, i, incomeRows, expenseRows) ==
    LET month == year \o "-" \o PadStart2(i) IN
    [month |-> month,
     income |-> TotalOf(incomeRows, month),
     expenses |-> TotalOf(expenseRows, month),
     profit |-> TotalOf(incomeRows, month) - TotalOf(expenseRows, month)]

\* GET /api/dashboard/monthly-chart: the income query
MonthlyChartIncome(year) ==
    /\ Accepting
    /\ LET rq == NewReq("monthlyChart", 0, [year |-> year])
           y == CurrentYear(year, now) IN
       Await([rq EXCEPT !.pc = "expenses",
                        !.loc = [currentYear |-> y,
                                 incomeRows |-> MonthlyTotals(payments, "payment_month", y)]])
    /\ UNCHANGED <<store, now, bearer>>

\* MonthlyChartExpenses, had it listed only the months that have rows
MonthlyChartExpenses_NoZeroFill(rq) ==
    /\ rq.op = "monthlyChart" /\ rq.pc = "expenses"
    /\ LET y == rq.loc.currentYear
           expenseRows == MonthlyTotals(expenses, "expense_month", y)
           all == [i \in 1..12 |-> ChartEntry(y, i, rq.loc.incomeRows, expenseRows)]
           months == SelectSeq(all, LAMBDA e : e.income # 0 \/ e.expenses # 0) IN
       Reply(rq, [rq EXCEPT !.loc = [data |-> months]], 200)
    /\ UNCHANGED <<store, now, bearer>>

\* GET /api/dashboard/monthly-chart: the expenses query, the twelve months
\* and the response
MonthlyChartExpenses(rq) ==
    /\ rq.op = "monthlyChart" /\ rq.pc = "expenses"
    /\ LET y == rq.loc.currentYear
           expenseRows == MonthlyTotals(expenses, "expense_month", y)
           months == [i \in 1..12 |-> ChartEntry(y, i, rq.loc.incomeRows, expenseRows)] IN
       Reply(rq, [rq EXCEPT !.loc = [data |-> months]], 200)
    /\ UNCHANGED <<store, now, bearer>>

\* the tables a chart is asked for: payments and expenses that earlier
\* requests have stored, in the seeded group and student
ChartPaymentRows ==
    {PaymentRow([student_id |-> Some(1), amount |-> Some(a), payment_month |-> Some(m),
                 payment_date |-> Some("2024-03-15"), payment_method |-> Some("cash"),
                 notes |-> None], Some(1)) :
        a \in {100}, m \in {"2024-03", "2024-04", "2025-03"}}
ChartExpenseRows == {ExpenseRow(b) : b \in {x \in ExpenseBodies : ExpenseBodyValid(x)}}
TablesOf(rows, max) == UNION {[1..n -> rows] : n \in 0..max}

InitDash ==
    /\ groups = Insert(<<>>, 1, GroupRow(SeedGroupBody))
    /\ students = Insert(<<>>, 1, StudentRow(PayStudentBody(Some(1), None)))
    /\ payments \in TablesOf(ChartPaymentRows, MaxPayments)
    /\ expenses \in TablesOf(ChartExpenseRows, MaxExpenses)
    /\ admins = <<>>
    /\ serial = [groups |-> 2, students |-> 2, payments |-> Len(payments) + 1,
                 expenses |-> Len(expenses) + 1, admins |-> 1]
    /\ now \in {2, 14}
    /\ bearer = None
    /\ req = EmptyBag
    /\ last = NoResp

YearQueries == {None, Some("2024"), Some("2025"), Some("20")}

NextDash ==
    \/ \E y \in YearQueries : MonthlyChartIncome(y)
    \/ \E rq \in Pending : MonthlyChartExpenses(rq)
    \/ \E b \in ExpenseBodies : CreateExpense(b)
    \/ \E e \in ExpenseIds : DeleteExpense(e)

\* charts are asked for while expenses are created and deleted
SpecDash == InitDash /\ [][NextDash]_vars

(***************************************************************************)
(* Dashboard: the top groups                                                *)
(***************************************************************************)
\* COUNT(DISTINCT s.id) over the students joined to group g
StudentCount(g) == Cardinality({i \in DOMAIN students : students[i].group_id = Some(g)})
\* COUNT(DISTINCT CASE WHEN s.payment_status = 'paid' THEN s.id END)
PaidStudents(g) ==
    Cardinality({i \in DOMAIN students :
                    students[i].group_id = Some(g) /\ students[i].payment_status = "paid"})

\* ROUND(CASE WHEN count > 0 THEN (paid::float / count::float) * 100 ELSE 0 END, 2),
\* in hundredths of a percent
PaymentRate(paid, count) ==
    IF count > 0 THEN (paid * 20000 + count) \div (2 * count) ELSE 0

\* one row of the grouped join
TopGroupRow(g) ==
    [id |-> g, name |-> groups[g].name, teacher_name |-> groups[g].teacher_name,
     monthly_fee |-> groups[g].monthly_fee,
     student_count |-> StudentCount(g),
     paid_students |-> PaidStudents(g),
     payment_rate |-> PaymentRate(PaidStudents(g), StudentCount(g))]

\* ORDER BY student_count DESC, payment_rate DESC; the query leaves the order
\* of rows that tie open: they come by id, ascending or descending
TopOrder(a, b, ascending) ==
    \/ a.student_count > b.student_count
    \/ a.student_count = b.student_count /\ a.payment_rate > b.payment_rate
    \/ /\ a.student_count = b.student_count /\ a.payment_rate = b.payment_rate
       /\ IF ascending THEN a.id <= b.id ELSE a.id >= b.id

\* the rows of the grouped join, by id
RECURSIVE RowsById(_)
RowsById(ids) ==
    IF ids = {} THEN <<>>
    ELSE LET g == CHOOSE i \in ids : \A j \in ids : i <= j IN
         <<TopGroupRow(g)>> \o RowsById(ids \ {g})

\* ... LIMIT 10
TopRows(ascending) ==
    LET sorted == SortSeq(RowsById(DOMAIN groups), LAMBDA a, b : TopOrder(a, b, ascending)) IN
    SubSeq(sorted, 1, IF Len(sorted) < TopLimit THEN Len(sorted) ELSE TopLimit)

\* TopGroups, had the rate been computed without the CASE: the store raises
\* 'division by zero' for a group without students
TopGroups_Unguarded(ascending) ==
    /\ Accepting
    /\ LET rq == NewReq("topGroups", 0, <<>>) IN
       \/ /\ \A g \in DOMAIN groups : StudentCount(g) > 0
          /\ Reply(rq, [rq EXCEPT !.loc = [data |-> TopRows(ascending)]], 200)
       \/ /\ \E g \in DOMAIN groups : StudentCount(g) = 0
          /\ Reply(rq, [rq EXCEPT !.loc = [error |-> "division by zero"]], 500)
       \/ Reply(rq, [rq EXCEPT !.loc =
                        [error |-> "function round(double precision, integer) does not exist"]], 500)
    /\ UNCHANGED <<store, now, bearer>>

\* GET /api/dashboard/top-groups: one query, then the rows as the response.
\* A store that has no round(double precision, integer), as PostgreSQL has
\* none, rejects the query whatever the tables hold and the catch block
\* answers 500.
TopGroups(ascending) ==
    /\ Accepting
    /\ LET rq == NewReq("topGroups", 0, <<>>) IN
       \/ Reply(rq, [rq EXCEPT !.loc = [data |-> TopRows(ascending)]], 200)
       \/ Reply(rq, [rq EXCEPT !.loc =
                        [error |-> "function round(double precision, integer) does not exist"]], 500)
    /\ UNCHANGED <<store, now, bearer>>

\* the tables a report is asked for: groups that were created, students
\* enrolled in the first two of them or in none
TopStudentRows ==
    {StudentRow(PayStudentBody(g, st)) :
        g \in {Some(1), Some(2), None}, st \in {Some("paid"), None}}

InitTop ==
    /\ \E n \in 0..MaxTopGroups : groups = [g \in 1..n |-> GroupRow(SeedGroupBody)]
    /\ students \in TablesOf(TopStudentRows, MaxTopStudents)
    /\ payments = <<>>
    /\ expenses = <<>>
    /\ admins = <<>>
    /\ serial = [groups |-> Len(groups) + 1, students |-> Len(students) + 1,
                 payments |-> 1, expenses |-> 1, admins |-> 1]
    /\ now = 2
    /\ bearer = None
    /\ req = EmptyBag
    /\ last = NoResp

NextTop == \E ascending \in BOOLEAN : TopGroups(ascending)

SpecTop == InitTop /\ [][NextTop]_vars

(***************************************************************************)
(* The routers behind authenticateToken                                     *)
(***************************************************************************)
\* a bearer token as a request presents it: the token and the days since
\* it was issued
Bearer(jwt, heldDays) == Some([jwt |-> jwt, heldDays |-> heldDays])

\* verification of a token: signed with the server's secret and not older
\* than its lifetime
JwtVerify(header) ==
    /\ IsSome(header)
    /\ Val(header).jwt.signedWith = "JWT_SECRET"
    /\ Val(header).heldDays < Val(header).jwt.expiresIn

\* router.use(authenticateToken): a request without a token that verifies
\* is answered 401 and no route of the router runs
AuthenticateToken(op, id, body, Route) ==
    IF JwtVerify(bearer)
    THEN Route
    ELSE /\ Respond(NewReq(op, id, body), 401)
         /\ UNCHANGED <<store, now, bearer>>

\* the client sets the Authorization header of its next request
Present(header) ==
    /\ bearer' = header
    /\ last' = NoResp
    /\ UNCHANGED <<store, now, req>>

\* app.get('/api/health')
Health ==
    /\ Respond(NewReq("health", 0, <<>>), 200)
    /\ UNCHANGED <<store, now, bearer>>

GateGroupBody == [name |-> Some("Math"), teacher_name |-> None, monthly_fee |-> Some(100)]
GateStudentBody == PayStudentBody(Some(1), None)
GatePaymentBody ==
    [student_id |-> Some(1), amount |-> Some(100), payment_month |-> Some("2024-03"),
     payment_date |-> Some("2024-03-15"), payment_method |-> Some("cash"), notes |-> None]
GateExpenseBody ==
    [title |-> Some("Rent"), amount |-> Some(500), category |-> None,
     expense_date |-> Some("2024-03-15"), notes |-> None, expense_month |-> None]
GateAdminBody == [username |-> Some("root"), password |-> Some("secret1"), email |-> Some("a@x.io")]

\* app.use('/api/groups', ..)
GroupsRouter ==
    \/ AuthenticateToken("createGroup", 0, GateGroupBody, CreateGroup(GateGroupBody))
    \/ AuthenticateToken("updateGroup", 1, GateGroupBody, UpdateGroup(1, GateGroupBody))
    \/ AuthenticateToken("deleteGroup", 1, <<>>, DeleteGroup(1))

\* app.use('/api/students', ..)
StudentsRouter ==
    \/ AuthenticateToken("createStudent", 0, GateStudentBody, CreateStudentCheck(GateStudentBody))
    \/ AuthenticateToken("updateStudent", 1, GateStudentBody, UpdateStudent(1, GateStudentBody))
    \/ AuthenticateToken("deleteStudent", 1, <<>>, DeleteStudent(1))

\* app.use('/api/payments', ..)
PaymentsRouter ==
    \/ AuthenticateToken("createPayment", 0, GatePaymentBody, CreatePaymentSelect(GatePaymentBody))
    \/ AuthenticateToken("deletePayment", 1, <<>>, DeletePaymentDelete(1))

\* ExpensesRouter, had the router been mounted without authenticateToken
ExpensesRouter_Open ==
    \/ CreateExpense(GateExpenseBody)
    \/ UpdateExpense(1, GateExpenseBody)
    \/ DeleteExpense(1)

\* app.use('/api/expenses', ..)
ExpensesRouter ==
    \/ AuthenticateToken("createExpense", 0, GateExpenseBody, CreateExpense(GateExpenseBody))
    \/ AuthenticateToken("updateExpense", 1, GateExpenseBody, UpdateExpense(1, GateExpenseBody))
    \/ AuthenticateToken("deleteExpense", 1, <<>>, DeleteExpense(1))

\* app.use('/api/dashboard', ..)
DashboardRouter ==
    \/ AuthenticateToken("monthlyChart", 0, [year |-> None], MonthlyChartIncome(None))
    \/ AuthenticateToken("topGroups", 0, <<>>, TopGroups(TRUE))

\* app.use('/api/auth', ..): no authenticateToken in this router
AuthRouter ==
    \/ RegisterCheck(GateAdminBody)
    \/ LoginSelect([username |-> Some("root"), password |-> Some("secret1")])

\* the queries that handlers await complete
ProceedGate ==
    \/ \E rq \in Pending : CreateStudentInsert(rq)
    \/ ProceedPay
    \/ \E rq \in Pending : MonthlyChartExpenses(rq)
    \/ \E rq \in Pending : RegisterInsert(rq)
    \/ \E rq \in Pending : LoginCompare(rq)

\* the headers requests come with: none, a token signed with another key,
\* a token older than its lifetime, a token that verifies
Headers ==
    {None,
     Bearer([id |-> 1, username |-> "root", expiresIn |-> 7, signedWith |-> "guess"], 0),
     Bearer(JwtSign(1, "root"), 8),
     Bearer(JwtSign(1, "root"), 0)}

\* a request arrives while no other is being handled
ArriveGate ==
    \/ GroupsRouter
    \/ StudentsRouter
    \/ PaymentsRouter
    \/ ExpensesRouter
    \/ DashboardRouter
    \/ AuthRouter
    \/ Health

NextGate ==
    \/ \E h \in Headers : Present(h)
    \/ (req = EmptyBag /\ ArriveGate)
    \/ ProceedGate

SpecGate == Init /\ [][NextGate]_vars

(***************************************************************************)
(* Students and their payments, on a store that starts empty                *)
(***************************************************************************)
\* student bodies without a payment_status, with 'paid' and with a value
\* that is neither 'paid' nor 'unpaid'
StatusBodies == {PayStudentBody(Some(1), st) : st \in {None, Some("paid"), Some("pending")}}

ArriveStatus ==
    \/ CreateGroup(SeedGroupBody)
    \/ \E b \in StatusBodies : CreateStudentCheck(b)
    \/ \E b \in StatusBodies : UpdateStudent(1, b)
    \/ CreatePaymentSelect(GatePaymentBody)
    \/ \E p \in PaymentIds : DeletePaymentDelete(p)

NextStatus ==
    \/ (req = EmptyBag /\ ArriveStatus)
    \/ \E rq \in Pending : CreateStudentInsert(rq)
    \/ ProceedPay

SpecStatus == Init /\ [][NextStatus]_vars

(***************************************************************************)
(* Properties of the reconciliation                                         *)
(***************************************************************************)
Answered(op, code) == last.op = op /\ last.resp = code
StatusOf(s) == students[s].payment_status

\* C1: when POST /payments has just answered 201 for student S, the request
\* has inserted one payment row (the id RETURNING gave it) and S is 'paid',
\* whatever month the payment covers and whatever S's status was.
C1_CreateMarksPaid ==
    Answered("createPayment", 201) =>
        /\ last.loc.row \in 1..(serial.payments - 1)
        /\ Val(last.body.student_id) \in DOMAIN students
              => StatusOf(Val(last.body.student_id)) = "paid"

\* a payment for a month that is not the current one has been recorded
C1_Witness ==
    /\ Answered("createPayment", 201)
    /\ Val(last.body.payment_month) # CurrentMonth(now)
    /\ StatusOf(Val(last.body.student_id)) = "paid"

\* C2: when DELETE /payments/:id has just answered 200, handled on its own,
\* then for the calendar month M current while it was handled: S is 'unpaid'
\* if no payment of S for M remains, and S has the status it had before the
\* delete otherwise.
C2_DeleteReconciles ==
    (Answered("deletePayment", 200) /\ last.loc.studentId \in DOMAIN students) =>
        \E c \in last.loc.since..now :
            IF CountPayments(payments, last.loc.studentId, CurrentMonth(c)) = 0
            THEN StatusOf(last.loc.studentId) = "unpaid"
            ELSE Some(StatusOf(last.loc.studentId)) = last.loc.before

\* one of two payments of the current month was deleted and S is still paid
C2_Witness ==
    /\ Answered("deletePayment", 200)
    /\ CountPayments(payments, last.loc.studentId, CurrentMonth(now)) > 0
    /\ last.loc.before = Some("paid")
    /\ StatusOf(last.loc.studentId) = "paid"

\* the only payment of S, for the current month, was deleted: S is unpaid
C2_WitnessLast ==
    /\ Answered("deletePayment", 200)
    /\ payments = <<>>
    /\ last.loc.before = Some("paid")
    /\ StatusOf(last.loc.studentId) = "unpaid"

\* C3: when a reconciliation has just completed for S and no request is in
\* flight, S is 'paid' iff a payment of S for the current month exists.
ReconciledStudent ==
    IF last.op = "createPayment" THEN Val(last.body.student_id) ELSE last.loc.studentId
C3_PaidIffCurrentMonthPayment ==
    ((Answered("createPayment", 201) \/ Answered("deletePayment", 200))
        /\ req = EmptyBag /\ ReconciledStudent \in DOMAIN students) =>
        (StatusOf(ReconciledStudent) = "paid"
            <=> CountPayments(payments, ReconciledStudent, CurrentMonth(now)) > 0)

\* C4: the payment row is written first and the student second, a failure
\* between the two keeps the first write and writes nothing more.
\* - a create waiting to update the student has inserted its row, a delete
\*   waiting to count or to update has removed its row;
\* - a status changes only in the last step of a reconciliation (or by a
\*   student update);
\* - the step in which a request fails changes no table and ends the request.
C4_Order ==
    \A rq \in Pending :
        /\ (rq.op = "createPayment" /\ rq.pc = "insert") => rq.loc.row = 0
        /\ (rq.op = "createPayment" /\ rq.pc = "update") => rq.loc.row \in 1..(serial.payments - 1)
        /\ rq.op = "deletePayment" => rq.id \notin DOMAIN payments
C4_Step ==
    /\ students' # students =>
          \/ last'.op = "updateStudent"
          \/ last'.op \in {"createPayment", "deletePayment"}
                /\ last'.pc = "update" /\ last'.resp # 500
    /\ last'.resp = 500 =>
          /\ payments' = payments /\ students' = students
          /\ BagCardinality(req') = BagCardinality(req) - 1
          /\ (last'.op = "createPayment" /\ last'.pc = "update")
                => last'.loc.row \in DOMAIN payments'
          /\ last'.op = "deletePayment" => last'.id \notin DOMAIN payments'
C4_TwoWritesNoRollback == [](C4_Order) /\ [][C4_Step]_vars

\* a create failed after its insert: the payment exists, S is not paid, and
\* no request is left to repair it
C4_Witness ==
    /\ Answered("createPayment", 500)
    /\ last.pc = "update"
    /\ last.loc.row \in DOMAIN payments
    /\ StatusOf(Val(last.body.student_id)) = "unpaid"
    /\ bearer = None
    /\ req = EmptyBag

\* a delete failed after removing the last payment: S stays paid without one
C4_WitnessDelete ==
    /\ Answered("deletePayment", 500)
    /\ payments = <<>>
    /\ StatusOf(last.loc.studentId) = "paid"
    /\ bearer = None
    /\ req = EmptyBag

\* C5: of the DELETE requests for one payment id exactly one succeeds and
\* the others are answered 404 without removing a row or changing a status.
\* - a request gets past its DELETE query only by removing the row, and a
\*   row is removed only by such a request;
\* - a removed row never comes back, so no later request removes it again;
\* - a request that got past its DELETE query is answered 200;
\* - a request answered 404 found no row and changed no table.
PendingDeletes(r, p) ==
    LET S == {rq \in BagToSet(r) : rq.op = "deletePayment" /\ rq.id = p}
        RECURSIVE Sum(_)
        Sum(T) == IF T = {} THEN 0
                  ELSE LET x == CHOOSE y \in T : TRUE IN CopiesIn(x, r) + Sum(T \ {x})
    IN Sum(S)
WasRemoved(p) == p < serial.payments /\ p \notin DOMAIN payments
C5_Step ==
    /\ \A p \in 1..(serial.payments - 1) :
          /\ PendingDeletes(req', p) > PendingDeletes(req, p)
                <=> (p \in DOMAIN payments /\ p \notin DOMAIN payments')
          /\ WasRemoved(p) => WasRemoved(p)'
          /\ PendingDeletes(req', p) <= 1
    /\ (last'.op = "deletePayment" /\ BagCardinality(req') < BagCardinality(req))
          => last'.resp = 200
    /\ (last'.op = "deletePayment" /\ last'.resp = 404) =>
          /\ last'.id \notin DOMAIN payments
          /\ payments' = payments /\ students' = students
    /\ (last'.op = "deletePayment" /\ last'.id \in DOMAIN payments) => last'.resp # 404
C7_Step ==
    /\ \A p \in DOMAIN payments' \ DOMAIN payments :
          payments'[p].student_id \in DOMAIN students
             => payments'[p].group_id = students[payments'[p].student_id].group_id
    /\ \A p \in DOMAIN payments' \cap DOMAIN payments : payments'[p] = payments[p]
C7_GroupCopiedAndFrozen == [][C7_Step]_vars

\* the frame half of C7 on its own
C7_Frozen ==
    [][\A p \in DOMAIN payments' \cap DOMAIN payments : payments'[p] = payments[p]]_vars

(***************************************************************************)
(* Properties of groups, students and expenses                              *)
(***************************************************************************)
\* C6: POST /students for a group that does not exist is answered 404 and
\* inserts no row, also when the group is deleted between the handler's
\* check and its INSERT.
C6_Step ==
    /\ \A i \in DOMAIN students' \ DOMAIN students :
          /\ IsSome(students'[i].group_id)
          /\ Val(students'[i].group_id) \in DOMAIN groups
    /\ (last'.op = "createStudent" /\ StudentCreateValid(last'.body)
           /\ Val(last'.body.group_id) \notin DOMAIN groups)
          => (last'.resp = 404 /\ students' = students)
C6_NoStudentWithoutGroup == [][C6_Step]_vars

\* C8: every expense row's expense_month is the first 7 characters of its
\* expense_date (the whole date when it is shorter), whatever expense_month
\* the requests carried.
C8_MonthIsDatePrefix ==
    \A e \in DOMAIN expenses :
        LET d == expenses[e].expense_date
            m == expenses[e].expense_month IN
        /\ Len(m) = (IF Len(d) < 7 THEN Len(d) ELSE 7)
        /\ m = SubSeq(d, 1, Len(m))

\* an update moved an expense to another month while its body asked for a
\* third one
C8_Witness ==
    /\ Answered("updateExpense", 200)
    /\ last.id \in DOMAIN expenses
    /\ expenses[last.id].expense_month # last.loc.before.expense_month
    /\ IsSome(last.body.expense_month)
    /\ Val(last.body.expense_month) # expenses[last.id].expense_month

\* a value as supplied: the stored field equals the body's, an omitted
\* field being NULL
Supplied(stored, field) == stored = field
SuppliedValue(stored, field) == Some(stored) = field

\* an update for an id that does not exist is answered 404 and changes no row
C9_NotFoundStep ==
    (last'.op \in {"updateGroup", "updateStudent", "updateExpense"} /\ last'.resp = 404) =>
        /\ groups' = groups /\ students' = students /\ expenses' = expenses
        /\ last'.op = "updateGroup" => last'.id \notin DOMAIN groups
        /\ last'.op = "updateStudent" => last'.id \notin DOMAIN students
        /\ last'.op = "updateExpense" => last'.id \notin DOMAIN expenses

\* C9 as stated: after a successful update every field has the value
\* supplied in the request and every omitted optional field is NULL.
C9_RowAsSupplied ==
    /\ (Answered("updateGroup", 200) /\ last.id \in DOMAIN groups) =>
          LET row == groups[last.id]  b == last.body IN
          /\ SuppliedValue(row.name, b.name)
          /\ Supplied(row.teacher_name, b.teacher_name)
          /\ SuppliedValue(row.monthly_fee, b.monthly_fee)
    /\ (Answered("updateStudent", 200) /\ last.id \in DOMAIN students) =>
          LET row == students[last.id]  b == last.body IN
          /\ Supplied(row.group_id, b.group_id)
          /\ SuppliedValue(row.full_name, b.full_name)
          /\ Supplied(row.phone_number, b.phone_number)
          /\ Supplied(row.parent_phone, b.parent_phone)
          /\ SuppliedValue(row.join_date, b.join_date)
          /\ SuppliedValue(row.payment_status, b.payment_status)
    /\ (Answered("updateExpense", 200) /\ last.id \in DOMAIN expenses) =>
          LET row == expenses[last.id]  b == last.body IN
          /\ SuppliedValue(row.title, b.title)
          /\ SuppliedValue(row.amount, b.amount)
          /\ Supplied(row.category, b.category)
          /\ SuppliedValue(row.expense_date, b.expense_date)
          /\ Supplied(row.notes, b.notes)
Blank(field) == field = None \/ field = Some("")
TextOrNull(stored, field) == stored = (IF Blank(field) THEN None ELSE field)
Trimmed(stored, field) ==
    /\ Len(stored) > 0
    /\ SubSeq(stored, 1, 1) # " " /\ SubSeq(stored, Len(stored), Len(stored)) # " "
    /\ \E i \in 0..Len(Val(field)), j \in 0..Len(Val(field)) :
          /\ i + Len(stored) + j = Len(Val(field))
          /\ SubSeq(Val(field), i + 1, i + Len(stored)) = stored
          /\ \A k \in (1..i) \cup ((i + Len(stored) + 1)..Len(Val(field))) :
                SubSeq(Val(field), k, k) = " "
C9_RowAsSanitised ==
    /\ (Answered("updateGroup", 200) /\ last.id \in DOMAIN groups) =>
          LET row == groups[last.id]  b == last.body IN
          /\ Trimmed(row.name, b.name)
          /\ TextOrNull(row.teacher_name, b.teacher_name)
          /\ SuppliedValue(row.monthly_fee, b.monthly_fee)
    /\ (Answered("updateStudent", 200) /\ last.id \in DOMAIN students) =>
          LET row == students[last.id]  b == last.body IN
          /\ Supplied(row.group_id, b.group_id)
          /\ Trimmed(row.full_name, b.full_name)
          /\ TextOrNull(row.phone_number, b.phone_number)
          /\ TextOrNull(row.parent_phone, b.parent_phone)
          /\ SuppliedValue(row.join_date, b.join_date)
          /\ row.payment_status = (IF Blank(b.payment_status) THEN "unpaid"
                                   ELSE Val(b.payment_status))
    /\ (Answered("updateExpense", 200) /\ last.id \in DOMAIN expenses) =>
          LET row == expenses[last.id]  b == last.body IN
          /\ Trimmed(row.title, b.title)
          /\ SuppliedValue(row.amount, b.amount)
          /\ TextOrNull(row.category, b.category)
          /\ SuppliedValue(row.expense_date, b.expense_date)
          /\ TextOrNull(row.notes, b.notes)
UniqueAdmins ==
    \A a, b \in DOMAIN admins :
        a # b => (admins[a].username # admins[b].username /\ admins[a].email # admins[b].email)

C10_ConflictStep ==
    (/\ last'.op = "register"
     /\ RegisterBodyValid(last'.body)
     /\ \E a \in DOMAIN admins : \/ admins[a].username = Val(last'.body.username)
                                 \/ admins[a].email = Val(last'.body.email))
        => (last'.resp = 400 /\ admins' = admins)

\* C10: no two admins share a username or an email, and a register request
\* whose username or email belongs to an admin is answered 400 and inserts
\* no row, also when register requests overlap.
C10_RegisterUnique == [](UniqueAdmins) /\ [][C10_ConflictStep]_vars

\* the token of the login answered by the step just taken
TokenIssued == last.op = "login" /\ last.resp # 400 /\ IsSome(last.loc.token)

\* C11: a login with a username and a password that is not answered with a
\* token is answered 401 'Invalid credentials' without a token, whether the
\* username is unknown or the password does not match; a token is issued
\* only with 200 and only for an admin of that username whose stored hash
\* matches the password.
C11_LoginFailsClosed ==
    (last.op = "login" /\ LoginBodyValid(last.body)) =>
        IF last.resp = 200
        THEN /\ TokenIssued
             /\ \E a \in DOMAIN admins :
                   /\ admins[a].username = Val(last.body.username)
                   /\ admins[a].password = <<"bcrypt", 10, Val(last.body.password)>>
                   /\ Val(last.loc.token).id = a
        ELSE /\ last.resp = 401
             /\ last.loc = [message |-> "Invalid credentials", token |-> <<>>]

\* a login for an admin's username with another password was refused
C11_Witness ==
    /\ Answered("login", 401)
    /\ \E a \in DOMAIN admins : admins[a].username = Val(last.body.username)
    /\ \A a \in DOMAIN admins : admins[a].password # <<"bcrypt", 10, Val(last.body.password)>>

\* a login for a username no admin has was refused
C11_WitnessAbsent ==
    /\ Answered("login", 401)
    /\ admins # <<>>
    /\ \A a \in DOMAIN admins : admins[a].username # Val(last.body.username)

\* a login got its token
C11_WitnessToken == TokenIssued

(***************************************************************************)
(* Properties of the dashboard                                              *)
(***************************************************************************)
MonthSuffix == <<"-01", "-02", "-03", "-04", "-05", "-06", "-07", "-08", "-09", "-10", "-11", "-12">>

\* the sum of the amounts of a table's rows that carry month token m
MonthSum(table, column, m) ==
    LET RECURSIVE Upto(_)
        Upto(n) == IF n = 0 THEN 0
                   ELSE Upto(n - 1) + (IF n \in DOMAIN table /\ table[n][column] = m
                                       THEN table[n].amount ELSE 0)
    IN Upto(serial.payments + serial.expenses)

\* the year a chart request asked for
AskedYear(rq) == IF rq.body.year \in {<<>>, <<"">>}
                 THEN (IF now < 12 THEN "2024" ELSE "2025")
                 ELSE rq.body.year[1]

\* C14: a monthly chart has exactly 12 entries, for year-01 to year-12 in
\* that order; income and expenses are the sums of the amounts of the rows of
\* that month (0 without rows) and profit is income minus expenses.
C14_TwelveMonths ==
    Answered("monthlyChart", 200) =>
        LET data == last.loc.data IN
        /\ DOMAIN data = 1..12
        /\ \A i \in 1..12 :
              /\ data[i].month = AskedYear(last) \o MonthSuffix[i]
              /\ data[i].income = MonthSum(payments, "payment_month", data[i].month)
              /\ data[i].expenses = MonthSum(expenses, "expense_month", data[i].month)
              /\ data[i].profit = data[i].income - data[i].expenses

\* a chart with a month that has income, a month that has expenses and a
\* month that has neither
C14_Witness ==
    /\ Answered("monthlyChart", 200)
    /\ \E i, j, k \in 1..12 :
          /\ last.loc.data[i].income > 0
          /\ last.loc.data[j].expenses > 0 /\ last.loc.data[j].profit < 0
          /\ last.loc.data[k].income = 0 /\ last.loc.data[k].expenses = 0

OpenRoutes == {"login", "register", "health"}

\* the header carries a token of the server that has not expired
ValidHeader(header) ==
    /\ header # <<>>
    /\ header[1].jwt.signedWith = "JWT_SECRET"
    /\ header[1].heldDays < 7

\* a request was received in the step: it was answered at once or its
\* handler now waits on its first query
NewlyPending == BagToSet(req' (-) req)
Received(rq) ==
    \/ BagCardinality(req') > BagCardinality(req) /\ rq \in NewlyPending
    \/ BagCardinality(req') = BagCardinality(req) /\ rq = last' /\ rq.op # "none" /\ rq.pc = "start"

C12_Step ==
    /\ \A rq \in NewlyPending \cup {last'} :
          (Received(rq) /\ rq.op \notin OpenRoutes /\ ~ValidHeader(bearer)) =>
              /\ rq = last' /\ rq.resp = 401 /\ rq.loc = <<>>
              /\ req' = req
              /\ <<groups, students, payments, expenses, admins, serial>>'
                    = <<groups, students, payments, expenses, admins, serial>>
    /\ (last'.op \notin OpenRoutes /\ last'.op # "none" /\ last'.resp = 401) => ~ValidHeader(bearer)
    /\ (last'.op = "health") => last'.resp = 200
    /\ \A rq \in NewlyPending \cup {last'} :
          (Received(rq) /\ rq.op \in {"login", "register"}) =>
              (rq \in NewlyPending \/ rq.resp = 400 \/ rq.loc # <<>>)

\* C12: a request to a groups, students, payments, expenses or dashboard
\* route without a token that verifies is answered 401 at once: no handler
\* runs, nothing is read into the response and no table changes; a 401 of
\* these routes is given to such requests only; health and the auth routes
\* are served whatever the header.
C12_Gate == [][C12_Step]_vars

\* a delete of an existing group with an expired token was refused
C12_Witness ==
    /\ Answered("deleteGroup", 401)
    /\ 1 \in DOMAIN groups
    /\ bearer # <<>> /\ bearer[1].jwt.signedWith = "JWT_SECRET" /\ bearer[1].heldDays > 7

\* health was served without a token
C12_WitnessHealth == Answered("health", 200) /\ bearer = <<>> /\ groups # <<>>

(***************************************************************************)
(* Properties of the student rows                                           *)
(***************************************************************************)
\* C13: every student row has payment_status 'paid' or 'unpaid', whatever
\* the bodies of the student and payment requests.
C13_StatusPaidOrUnpaid ==
    \A i \in DOMAIN students : students[i].payment_status \in {"paid", "unpaid"}

(***************************************************************************)
(* Properties of the group rows                                             *)
(***************************************************************************)
NonNegativeFees == \A g \in DOMAIN groups : groups[g].monthly_fee \in Nat

C16_RejectStep ==
    (/\ last'.op \in {"createGroup", "updateGroup"}
     /\ last'.pc = "start"
     /\ last'.body.monthly_fee \notin {<<n>> : n \in 0..1000})
        => (last'.resp = 400 /\ groups' = groups)

\* C16: every group row has monthly_fee >= 0; a group create or update whose
\* monthly_fee is negative or missing is answered 400 and changes no group
\* row.
C16_FeeNotNegative == [](NonNegativeFees) /\ [][C16_RejectStep]_vars

\* an update of an existing group with a negative fee was rejected
C16_Witness ==
    /\ Answered("updateGroup", 400)
    /\ last.id \in DOMAIN groups
    /\ last.body.monthly_fee = <<-5>>

\* a create without a fee was rejected
C16_WitnessNoFee == Answered("createGroup", 400) /\ last.body.monthly_fee = <<>>

(***************************************************************************)
(* Properties of overlapping reconciliations                                *)
(***************************************************************************)
\* C17: once every payment create and payment delete has completed, a
\* student with a payment row for the current month is 'paid', however the
\* queries of the requests interleaved.
C17_QuiescentPaid ==
    req = EmptyBag =>
        \A i \in DOMAIN students :
            (\E p \in DOMAIN payments : /\ payments[p].student_id = i
                                        /\ payments[p].payment_month = CurrentMonth(now))
                => students[i].payment_status = "paid"

(***************************************************************************)
(* Properties of a payment for a student that does not exist                *)
(***************************************************************************)
C18_NoOrphan ==
    /\ \A rq \in Pending :
          rq.op = "createPayment" => rq.body.student_id[1] \in DOMAIN students
    /\ \A p \in DOMAIN payments : payments[p].student_id \in DOMAIN students

C18_Step ==
    /\ (/\ last'.op = "createPayment"
        /\ PaymentBodyValid(last'.body)
        /\ last'.body.student_id[1] \notin DOMAIN students)
          => /\ last'.resp = 404
             /\ payments' = payments /\ students' = students /\ serial' = serial
    /\ (last'.op = "createPayment" /\ last'.resp = 404)
          => /\ last'.body.student_id[1] \notin DOMAIN students
             /\ last'.pc = "start" /\ last'.loc = <<>>

\* C18: POST /payments for a student_id without a student row is answered
\* 404 by the lookup, before the INSERT and the UPDATE: no payment row is
\* inserted and no student row changes.
C18_MissingStudent == [](C18_NoOrphan) /\ [][C18_Step]_vars

\* a payment for a student that does not exist was refused while the
\* enrolled student has payments
C18_Witness ==
    /\ Answered("createPayment", 404)
    /\ last.body.student_id[1] \notin DOMAIN students
    /\ payments # <<>>

(***************************************************************************)
(* Properties of a student update next to the student's payments            *)
(***************************************************************************)
C19_Step ==
    (last'.op = "updateStudent" /\ last'.resp = 200) =>
        /\ payments' = payments
        /\ last'.id \in DOMAIN students'
        /\ students'[last'.id].payment_status =
              (IF last'.body.payment_status \in {<<>>, <<"">>}
               THEN "unpaid" ELSE last'.body.payment_status[1])

\* C19: PUT /students/:id leaves the payment rows alone and runs no
\* reconciliation: after a successful update the student's payment_status is
\* the one the request supplied, 'unpaid' when it supplied none, whatever
\* payments the student has.
C19_UpdateDoesNotReconcile == [][C19_Step]_vars

\* a student with a payment for the current month was updated without a
\* payment_status and is 'unpaid'
C19_Witness ==
    /\ Answered("updateStudent", 200)
    /\ last.body.payment_status = <<>>
    /\ \E p \in DOMAIN payments : /\ payments[p].student_id = last.id
                                  /\ payments[p].payment_month = CurrentMonth(now)
    /\ last.loc.before.payment_status = "paid"
    /\ students[last.id].payment_status = "unpaid"

====
